---- MODULE Spec2Model ----
(***************************************************************************)
(* A model of the source resolution engine of AutoWallpaper                *)
(* (src/providers.py): the Candidate Race of MetMuseumProvider, the        *)
(* randomized meta-source RandomMetaProvider, and the single-source        *)
(* resolvers with their credential check, query construction and fallback. *)
(***************************************************************************)
EXTENDS Integers, Sequences, FiniteSets, TLC

\* ------------------------------------------------------------------ bounds
\* Largest number of object ids a Met search returns in the model.
MaxIds == 6
\* Largest number of candidates of a pool that carry an image.
MaxValid == 2
\* Length of a search result that is longer than the pool may be.
LongIds == 11
\* The catalog given to the meta-source has keys among "0", "1" .. MaxKey.
MaxKey == 2
\* Largest number of download_image calls made on one meta-source.
MaxCalls == 2

\* ------------------------------------------------------- program constants
\* ThreadPoolExecutor(max_workers=5)
max_workers == 5
\* num_checks = min(len(object_ids), 10)
max_checks == 10
\* page = random.randint(1, 10)   (Pexels, Pixabay)
max_page == 10
\* page = random.randint(1, 5)    (Library of Congress)
loc_max_page == 5

Min(a, b) == IF a < b THEN a ELSE b
Max(a, b) == IF a > b THEN a ELSE b

VARIABLES
    \* ---- MetMuseumProvider.download_image (the Candidate Race)
    nids,       \* len(object_ids) of the search response
    mpc,        \* position of the calling thread in download_image
    selected,   \* num_checks: the candidates are 1..selected (selected_ids)
    valid,      \* the candidates whose object record carries a primaryImage
    fut,        \* state of the future of each candidate
    yielded,    \* futures the as_completed generator has yielded
    ci,         \* index of the cancel loop "for f in futures: f.cancel()"
    winner,     \* candidate whose probe result was the first truthy one
    outcome,    \* what download_image returned or raised
    payload,    \* the candidate whose image bytes were returned (0: none)
    fetches,    \* number of _download_bytes calls issued
    probes,     \* number of times the probe of each candidate was started
    errSeen     \* some probe timed out, got a non-200 status or raised

VARIABLES
    \* ---- RandomMetaProvider
    providers,    \* providers_dict: key -> name of the provider stored there
    categories,   \* categories_dict: provider name -> list of categories
    moods,        \* moods_dict: provider name -> list of moods
    rpc,          \* "idle", "delegated" (inside the delegate's call), "done"
    category,     \* the caller's category of the current call
    mood,         \* the caller's mood of the current call
    pid,          \* the key random.choice drew
    target_cat,   \* category handed to the delegate
    target_mood,  \* mood handed to the delegate
    delegated,    \* delegate download_image calls made by the current call
    routcome,     \* what the current call returned or raised
    dres,         \* what the delegate's download_image returned or raised
    ncalls        \* download_image calls made on the meta-source so far

VARIABLES
    \* ---- single-source resolvers
    sprov,      \* the provider whose download_image is called
    skey,       \* whether the provider's API key is configured
    scat,       \* category argument
    smood,      \* mood argument
    spc,        \* "idle", "search" (awaiting a query's response), "image", "done"
    sans,       \* the upstream's answers to the first and the second query
    shit,       \* the image URLs of the hit a "hits" response holds, each URL
                \* as <<name, extension>>
    surl,       \* the URL the image request was addressed to (<<>>: none)
    simg,       \* the upstream's answer to the image request: "ok" (status
                \* 200 with a body), "ok_empty" (status 200, empty body), "error"
    spage,      \* the randomized page drawn (0: the provider draws none)
    slog,       \* the HTTP requests issued, in order
    sresp,      \* the responses received to the queries, in order
    sused,      \* index of the query whose data the image URL was taken from
    sout        \* what download_image returned or raised

VARIABLES
    \* ---- set_resolution / download_image on one shared provider instance
    rprov,        \* the provider instance the requests share
    orientation,  \* UnsplashProvider.orientation
    ratios,       \* WallhavenProvider.ratios (<<>>: the empty string)
    width,        \* self.width of the providers that store width and height
    height,       \* self.height
    reqres,       \* the resolution string of each request
    reqpc,        \* each request: "new", "configured" (set_resolution
                  \* returned), "raised" (set_resolution raised), "sent",
                  \* "sent_default" (download_image built its query)
    reqhint       \* the hint each request's outgoing query carried

VARIABLES
    \* ---- main(): command-line mode
    carg,         \* args.provider ("": not given)
    cloop,        \* args.loop, the interval in minutes (0: not given)
    cpc,          \* "start", "update" (before run_wallpaper_update), "sleep"
                  \* (before time.sleep), "exited"
    cprovider,    \* name of the provider the lookup returned ("": none)
    cexit,        \* how the process ended: "none", "0", "1" (sys.exit
                  \* status or normal end), "ValueError" (uncaught exception)
    cmsg,         \* the last message printed about an error or a stop
    cdownloads,   \* download_image calls made
    cfailures     \* updates that failed

VARIABLES
    \* ---- sources with a safe/unsafe axis (nekos.moe, Konachan)
    nprov,        \* the provider whose download_image is called
    ncat,         \* category argument, as the sequence of its characters
    nmood,        \* mood argument, as the sequence of its characters
    nposts,       \* ratings of the posts the Konachan search returns
    npc,          \* "idle", "request" (the query is out), "done"
    nparam,       \* nekos.moe: the nsfw parameter sent ("None": omitted)
    nsetting,     \* the subset asked for: "safe", "unsafe", "unrestricted"
    nresult       \* rating of the image returned, or the failure

VARIABLES
    \* ---- AutoWallpaperGUI: the Download button and its worker thread
    provider_var,       \* the name shown in the provider combobox
    current_provider,   \* self.current_provider, by name
    category_var,       \* the category selected
    mood_var,           \* the mood selected ("None": no mood)
    downloading,        \* self.downloading
    download_button,    \* state of the Download button
    randomize_button,   \* state of the Randomize button
    click,              \* what the last call of on_download did
    wpc,                \* each worker thread: "unborn", "started" (before it
                        \* reads self.current_provider), "downloading", "ended"
    wargs,              \* args=(category, mood) of the thread started last
    wclick,             \* self.current_provider when that thread was started
    wused,              \* the provider whose download_image that thread
                        \* called ("": it has not called yet)
    wres,               \* how download_wallpaper went: "ok", "error"
    afterq,             \* on_download_complete callbacks root.after has queued
    completed           \* runs of on_download_complete

raceVars == <<nids, mpc, selected, valid, fut, yielded, ci, winner, outcome,
              payload, fetches, probes, errSeen>>
metaVars == <<providers, categories, moods, rpc, category, mood, pid,
              target_cat, target_mood, delegated, routcome, dres, ncalls>>
srchVars == <<sprov, skey, scat, smood, sans, shit, surl, simg, spc, spage, slog,
              sresp, sused, sout>>

resVars == <<rprov, orientation, ratios, width, height, reqres, reqpc, reqhint>>
cliVars == <<carg, cloop, cpc, cprovider, cexit, cmsg, cdownloads, cfailures>>
safeVars == <<nprov, ncat, nmood, nposts, npc, nparam, nsetting, nresult>>
guiVars == <<provider_var, current_provider, category_var, mood_var, downloading,
             download_button, randomize_button, click, wpc, wargs, wclick, wused,
             wres, afterq, completed>>
auxVars == <<resVars, cliVars, safeVars, guiVars>>
coreVars == <<raceVars, metaVars, srchVars>>

vars == <<raceVars, metaVars, srchVars, auxVars>>

\* The parts of the engine are checked one at a time: the state of the parts
\* a specification does not exercise stays as constructed.
RaceIdle ==
    /\ nids = 0 /\ valid = {} /\ mpc = "idle" /\ selected = 0
    /\ fut = <<>> /\ yielded = {} /\ ci = 0 /\ winner = 0
    /\ outcome = "none" /\ payload = 0 /\ fetches = 0 /\ probes = <<>>
    /\ errSeen = FALSE

MetaIdle ==
    /\ providers = <<>> /\ categories = <<>> /\ moods = <<>>
    /\ rpc = "idle" /\ category = "" /\ mood = "" /\ pid = ""
    /\ target_cat = "" /\ target_mood = "" /\ delegated = 0
    /\ routcome = "none" /\ dres = "none" /\ ncalls = 0

SrchIdle ==
    /\ sprov = "" /\ skey = FALSE /\ scat = "" /\ smood = ""
    /\ sans = <<>> /\ shit = <<>> /\ surl = <<>> /\ simg = ""
    /\ spc = "idle" /\ spage = 0 /\ slog = <<>> /\ sresp = <<>>
    /\ sused = 0 /\ sout = "none"

ResIdle ==
    /\ rprov = "" /\ orientation = "landscape" /\ ratios = <<>>
    /\ width = 1920 /\ height = 1080
    /\ reqres = <<>> /\ reqpc = <<>> /\ reqhint = <<>>

CliIdle ==
    /\ carg = "" /\ cloop = 0 /\ cpc = "idle" /\ cprovider = ""
    /\ cexit = "none" /\ cmsg = "none" /\ cdownloads = 0 /\ cfailures = 0

SafeIdle ==
    /\ nprov = "" /\ ncat = <<>> /\ nmood = <<>> /\ nposts = {}
    /\ npc = "idle" /\ nparam = "none" /\ nsetting = "none" /\ nresult = "none"

GuiIdle ==
    /\ provider_var = "" /\ current_provider = "" /\ category_var = ""
    /\ mood_var = "" /\ downloading = FALSE /\ download_button = "normal"
    /\ randomize_button = "normal" /\ click = "none" /\ wpc = <<>>
    /\ wargs = <<>> /\ wclick = "" /\ wused = "" /\ wres = <<>>
    /\ afterq = 0 /\ completed = 0

AuxIdle == ResIdle /\ CliIdle /\ SafeIdle /\ GuiIdle

\* ------------------------------------------------ MetMuseumProvider probes
\* What the object endpoint can answer for a candidate without an image.
InvalidResponses == {"ok_noimage", "non200", "timeout", "badjson"}
ErrorResponses == {"non200", "timeout", "badjson"}

\* _check_object without the "if image_url" test.
check_object_any_record(resp) ==
    IF resp \in {"ok_image", "ok_noimage"} THEN "valid" ELSE "none"

\* _check_object without the "except Exception" clause.
check_object_uncaught(resp) ==
    CASE resp = "ok_image" -> "valid"
      [] resp \in {"timeout", "badjson"} -> "exc"
      [] OTHER -> "none"

\* _check_object: the probe result for one upstream response.
check_object(resp) ==
    CASE resp = "ok_image"   -> "valid"     \* (image_url, title)
      [] resp = "non200"     -> "none"      \* status_code != 200: return None
      [] resp = "ok_noimage" -> "none"      \* primaryImage empty: return None
      [] OTHER               -> "none"      \* except Exception: pass; return None

\* The size of the pool without the cap of ten.
num_checks_uncapped(n) == n

\* num_checks = min(len(object_ids), 10)
num_checks(n) == Min(n, max_checks)

\* The sets of valid candidates tried for a search result of n object ids: for
\* a result longer than the pool, the two valid candidates are the last two
\* of the pool.
ValidSets(n) ==
    IF n <= MaxIds
    THEN {v \in SUBSET (1..Min(n, max_checks)) : Cardinality(v) <= MaxValid}
    ELSE {{max_checks - 1, max_checks}}

Candidates == 1..selected
Running == {i \in Candidates : fut[i] = "running"}
Pending == {i \in Candidates : fut[i] = "pending"}
Finished == {i \in Candidates : fut[i] \in {"valid", "none", "exc"}}

\* ThreadPoolExecutor(max_workers=5): a queued work item is taken up only
\* while fewer than max_workers probes are running.
WorkerAvailable_unbounded == Cardinality(Running) < selected
WorkerAvailable == Cardinality(Running) < max_workers

\* The work queue of the executor is FIFO: the next work item a free worker
\* runs is the oldest one that was not cancelled.
QueueHead == CHOOSE i \in Pending : \A j \in Pending : i <= j

\* ---------------------------------------------------------------- Init
\* A future is "new" before it is submitted, then "pending" (queued),
\* "running" (its probe is in flight), and finished with the probe's result
\* ("valid", "none", or "exc" for a raised exception); "cancelled" is a
\* future that was cancelled while pending.
\* The upstream is fixed by Init: how many object ids the search returns and
\* which of the candidates (numbered in the order they are submitted) have a
\* primaryImage.
RaceInit ==
    /\ nids \in (0..MaxIds) \cup {LongIds}
    /\ valid \in ValidSets(nids)
    /\ mpc = "search"
    /\ selected = 0
    /\ fut = [i \in 1..Max(MaxIds, max_checks) |-> "new"]
    /\ yielded = {}
    /\ ci = 0
    /\ winner = 0
    /\ outcome = "running"
    /\ payload = 0
    /\ fetches = 0
    /\ probes = [i \in 1..Max(MaxIds, max_checks) |-> 0]
    /\ errSeen = FALSE
    /\ MetaIdle
    /\ SrchIdle
    /\ AuxIdle

\* ----------------------------------------------------------- main thread
\* data = self._fetch_json(search_url, ...); object_ids empty -> RuntimeError;
\* selected_ids = random.sample(object_ids, min(len(object_ids), 10)).
MetSearch ==
    /\ mpc = "search"
    /\ \/ /\ outcome' = "SearchFailed"          \* _fetch_json raised
          /\ mpc' = "done"
          /\ UNCHANGED selected
       \/ IF nids = 0
          THEN /\ outcome' = "NotFound"         \* if not object_ids: raise
               /\ mpc' = "done"
               /\ UNCHANGED selected
          ELSE /\ selected' = num_checks(nids)
               /\ mpc' = "submit"
               /\ UNCHANGED outcome
    /\ UNCHANGED <<nids, probes, valid, fut, yielded, ci, winner, payload, fetches, errSeen,
                   metaVars, srchVars, auxVars>>

\* futures = [executor.submit(self._check_object, oid) for oid in selected_ids]
Submit ==
    /\ mpc = "submit"
    /\ \E i \in Candidates :
        /\ fut[i] = "new"
        /\ \A j \in Candidates : j < i => fut[j] # "new"
        /\ fut' = [fut EXCEPT ![i] = "pending"]
        /\ mpc' = IF i = selected THEN "wait" ELSE mpc
    /\ UNCHANGED <<nids, probes, selected, valid, yielded, ci, winner, outcome, payload,
                   fetches, errSeen,
                   metaVars, srchVars, auxVars>>

\* One iteration of "for future in as_completed(futures)": as_completed
\* yields a finished future that it has not yielded yet; result =
\* future.result(); if result: cancel the others and fetch the image.
AsCompleted ==
    /\ mpc = "wait"
    /\ \E i \in Finished \ yielded :
         CASE fut[i] = "valid" ->
                /\ winner' = i
                /\ ci' = 1
                /\ mpc' = "cancel"
                /\ yielded' = {}                \* the generator is abandoned
                /\ UNCHANGED outcome
           [] fut[i] = "exc" ->                 \* future.result() re-raises
                /\ outcome' = "ProbeError"
                /\ mpc' = "exit"
                /\ yielded' = {}
                /\ UNCHANGED <<winner, ci>>
           [] OTHER ->
                /\ yielded' = yielded \cup {i}
                /\ mpc' = IF yielded \cup {i} = Candidates
                          THEN "exhausted" ELSE mpc
                /\ UNCHANGED <<winner, ci, outcome>>
    /\ UNCHANGED <<nids, probes, selected, valid, fut, payload, fetches, errSeen,
                   metaVars, srchVars, auxVars>>

\* for f in futures: f.cancel()   -- only a pending future can be cancelled
Cancel ==
    /\ mpc = "cancel"
    /\ fut' = [fut EXCEPT ![ci] = IF fut[ci] = "pending" THEN "cancelled" ELSE @]
    /\ IF ci = selected
       THEN /\ mpc' = "fetch"
            /\ fetches' = fetches + 1           \* _download_bytes is called
       ELSE UNCHANGED <<mpc, fetches>>
    /\ ci' = ci + 1
    /\ UNCHANGED <<nids, probes, selected, valid, yielded, winner, outcome, payload, errSeen,
                   metaVars, srchVars, auxVars>>

\* _download_bytes raised and the loop goes on to the next truthy result.
DownloadBytes_try_next ==
    /\ mpc = "fetch"
    /\ \/ /\ outcome' = "bytes"
          /\ payload' = winner
          /\ mpc' = "exit"
          /\ UNCHANGED <<yielded, winner>>
       \/ /\ yielded' = {i \in Candidates : fut[i] = "none"} \cup {winner}
          /\ winner' = 0
          /\ mpc' = "wait"
          /\ UNCHANGED <<outcome, payload>>
    /\ UNCHANGED <<nids, probes, selected, valid, fut, ci, fetches, errSeen,
                   metaVars, srchVars, auxVars>>

\* _download_bytes(image_url) completes: the bytes of the response, or a
\* RuntimeError.  The return value is computed inside the with block.
DownloadBytes ==
    /\ mpc = "fetch"
    /\ \/ /\ outcome' = "bytes"
          /\ payload' = winner
       \/ /\ outcome' = "DownloadFailed"        \* _download_bytes raised
          /\ UNCHANGED payload
    /\ mpc' = "exit"
    /\ UNCHANGED <<nids, probes, selected, valid, fut, yielded, ci, winner, fetches, errSeen,
                   metaVars, srchVars, auxVars>>

\* Leaving the with block calls executor.shutdown(wait=True), which joins the
\* worker threads: the call returns (or raises) when no probe is queued or
\* running any more.
ExecutorExit ==
    /\ mpc = "exit"
    /\ Running = {}
    /\ Pending = {}
    /\ mpc' = "done"
    /\ UNCHANGED <<nids, probes, selected, valid, fut, yielded, ci, winner, outcome, payload,
                   fetches, errSeen,
                   metaVars, srchVars, auxVars>>

\* download_image without its final raise: the call returns None.
Exhausted_no_raise ==
    /\ mpc = "exhausted"
    /\ outcome' = "None"
    /\ mpc' = "done"
    /\ UNCHANGED <<nids, probes, selected, valid, fut, yielded, ci, winner, payload,
                   fetches, errSeen,
                   metaVars, srchVars, auxVars>>

\* The loop ended without a truthy result: the with block is left (every
\* future is finished) and the RuntimeError after it is raised.
Exhausted ==
    /\ mpc = "exhausted"
    /\ outcome' = "NoValidCandidate"
    /\ mpc' = "done"
    /\ UNCHANGED <<nids, probes, selected, valid, fut, yielded, ci, winner, payload, fetches,
                   errSeen,
                   metaVars, srchVars, auxVars>>

\* -------------------------------------------------------- worker threads
\* A worker of the pool takes the oldest queued work item; the pool never
\* has more than max_workers threads.
StartProbe ==
    /\ Pending # {}
    /\ WorkerAvailable
    /\ fut' = [fut EXCEPT ![QueueHead] = "running"]
    /\ probes' = [probes EXCEPT ![QueueHead] = @ + 1]
    /\ UNCHANGED <<nids, mpc, selected, valid, yielded, ci, winner, outcome, payload,
                   fetches, errSeen,
                   metaVars, srchVars, auxVars>>

\* The probe of candidate i completes with the result of _check_object.
CompleteProbe ==
    \E i \in Running :
      \E resp \in (IF i \in valid THEN {"ok_image"} ELSE InvalidResponses) :
        /\ fut' = [fut EXCEPT ![i] = check_object(resp)]
        /\ errSeen' = (errSeen \/ resp \in ErrorResponses)
        /\ UNCHANGED <<nids, probes, mpc, selected, valid, yielded, ci, winner, outcome,
                       payload, fetches,
                   metaVars, srchVars, auxVars>>

RaceNext ==
    \/ MetSearch
    \/ Submit
    \/ AsCompleted
    \/ Cancel
    \/ DownloadBytes
    \/ ExecutorExit
    \/ Exhausted
    \/ StartProbe
    \/ CompleteProbe

SpecRace == RaceInit /\ [][RaceNext]_vars

\* ------------------------------------------------- claims: Candidate Race
RaceStarted == selected > 0

\* C2: during a Candidate Race, under every interleaving of the worker
\* threads, at most max_workers = 5 probes are in flight at once.
C2_AtMostFiveProbesInFlight == Cardinality(Running) <= max_workers

\* A pool larger than five with five probes in flight and one still queued.
C2_Witness ==
    /\ selected > max_workers
    /\ Cardinality(Running) = max_workers
    /\ Pending # {}

\* C3: when exactly one candidate of the pool is valid and the image fetch
\* does not fail, download_image returns the bytes of that candidate's image,
\* wherever the candidate stands in the pool and in whatever order the probes
\* complete.
C3_OnlyValidCandidateWins ==
    (mpc = "done" /\ RaceStarted /\ Cardinality(valid) = 1
       /\ outcome # "DownloadFailed")
    => (outcome = "bytes" /\ payload \in valid /\ winner \in valid)

\* The valid candidate is not the first of the pool and another probe had
\* completed with an Invalid outcome.
C3_Witness ==
    /\ mpc = "done" /\ Cardinality(valid) = 1 /\ outcome = "bytes"
    /\ payload \in valid /\ payload > 1
    /\ \E i \in Candidates \ valid : fut[i] = "none"

\* C4: once the image fetch of the first valid candidate has completed, the
\* call returns: it can leave at once, whatever probes are still in flight.
C4_ReturnsWithoutWaiting ==
    (mpc = "exit" /\ outcome = "bytes") => ENABLED ExecutorExit

\* C5: when every candidate of the pool is Invalid the race issues no image
\* fetch, goes on until all probes have completed and then fails with
\* NoValidCandidate.
C5_AllInvalidFails ==
    (RaceStarted /\ valid = {})
    => /\ fetches = 0
       /\ IF mpc = "done"
          THEN /\ outcome = "NoValidCandidate"
               /\ \A i \in Candidates : fut[i] = "none"
          ELSE ENABLED RaceNext

\* A pool of several candidates, all Invalid, has ended in NoValidCandidate.
C5_Witness ==
    /\ mpc = "done" /\ selected > 1 /\ valid = {}
    /\ outcome = "NoValidCandidate"

\* C6: a probe that times out, gets a non-200 status or raises counts as
\* Invalid: its future holds None, no probe error ever fails the call, and
\* when the pool has a valid candidate the race ends with a valid winner whose
\* image is fetched (the call returns its bytes unless that fetch fails).
C6_ProbeErrorIsInvalid ==
    /\ outcome # "ProbeError"
    /\ \A i \in Finished \ valid : fut[i] = "none"
    /\ (mpc = "done" /\ RaceStarted /\ valid # {})
         => (winner \in valid /\ fetches = 1
               /\ outcome \in {"bytes", "DownloadFailed"})

\* A probe failed and the race returned the image of another candidate.
C6_Witness ==
    /\ mpc = "done" /\ errSeen /\ outcome = "bytes"
    /\ \E i \in Candidates \ valid : fut[i] = "none"

\* A probe of candidate i is started by this step.
ProbeStarts(i) == fut[i] # "running" /\ fut'[i] = "running"

\* The pool and the requests of a Candidate Race are bounded.
VolumeBounded ==
    /\ selected <= max_checks /\ selected <= nids
    /\ \A i \in DOMAIN probes :
         /\ probes[i] <= 1
         /\ probes[i] = 1 => (i \in Candidates /\ fut[i] \in {"running", "valid", "none"})
    /\ fetches <= 1
    /\ fetches = 1 => (winner \in valid /\ fut[winner] = "valid")
    /\ payload \in {0, winner}

\* Once a Valid outcome was observed no step changes the winner or the
\* payload, and the completion of a probe triggers no fetch.
LateOutcomeStep ==
    /\ winner # 0 => winner' = winner
    /\ payload # 0 => payload' = payload
    /\ (winner # 0 /\ fut' # fut /\ mpc' = mpc)
         => UNCHANGED <<fetches, payload, outcome>>

\* C24: the request volume of a Candidate Race is bounded: the pool holds at
\* most max_checks = 10 candidates of the search result, the probe of a
\* candidate is started at most once, at most one image fetch is issued, for
\* the candidate whose Valid outcome was observed first, and a probe that
\* completes later triggers no fetch and leaves the payload as it is.
C24_RequestVolumeBounded == []VolumeBounded /\ [][LateOutcomeStep]_vars

\* A search result longer than ten gave a pool of ten; the image of the first
\* valid candidate observed was returned after one fetch while the probe of
\* the other valid candidate completed as well.
C24_Witness ==
    /\ nids > max_checks /\ selected = max_checks
    /\ mpc = "done" /\ outcome = "bytes" /\ fetches = 1 /\ payload = winner
    /\ \E i \in valid \ {winner} : fut[i] = "valid"
    /\ \E i \in Candidates : fut[i] = "none"

\* What a step does when the image fetch completes and after it has failed.
FailedFetchStep ==
    /\ (mpc = "fetch" /\ mpc' # "fetch")
         => (mpc' = "exit" /\ winner' = winner
               /\ \/ outcome' = "bytes" /\ payload' = winner
                  \/ outcome' = "DownloadFailed" /\ payload' = 0)
    /\ outcome = "DownloadFailed"
         => /\ outcome' = "DownloadFailed" /\ payload' = 0 /\ winner' = winner
            /\ fetches = 1 /\ fetches' = 1
            /\ \A i \in DOMAIN fut : ~ProbeStarts(i)
            /\ \A i \in Candidates \ {winner} :
                 fut[i] \in {"running", "valid", "none", "cancelled"}

\* C25: when the image fetch of the first valid candidate fails the call
\* fails with the error of that fetch: no other candidate is fetched or
\* probed afterwards, the others are cancelled or their results ignored.
C25_FailedFetchFailsCall == [][FailedFetchStep]_vars

\* The fetch of the winner failed and the call ended with its error although
\* the probe of another candidate had found an image.
C25_Witness ==
    /\ mpc = "done" /\ outcome = "DownloadFailed" /\ fetches = 1
    /\ \E i \in valid \ {winner} : fut[i] = "valid"
    /\ \E i \in Candidates : fut[i] = "cancelled"

\* ===================================================== RandomMetaProvider
\* The key under which the catalog stores the meta-source itself
\* ("Filter out self (ID "0")"), and the name get_name() gives it.
SelfKey == "0"
MetaName == "Random Source"
\* The other providers a catalog can hold, by name.
Delegates == {"Pexels", "Bing"}
OtherKeys == {ToString(i) : i \in 1..MaxKey}

Range(f) == {f[x] : x \in DOMAIN f}

\* str.lower() on the strings of the model.
Lower(str) ==
    CASE str \in {"Random", "RANDOM"} -> "random"
      [] str \in {"Pexels", "PEXELS"} -> "pexels"
      [] str \in {"Bing", "BING"}     -> "bing"
      [] str \in {"Waifu.im", "WAIFU.IM"} -> "waifu.im"
      [] OTHER -> str

\* Where the characters of a string matter it is the sequence of its
\* characters, so that lower(), split() and the substring test are computed.
LowerChar(c) ==
    CASE c = "N" -> "n" [] c = "S" -> "s" [] c = "F" -> "f" [] c = "W" -> "w"
      [] c = "X" -> "x"
      [] OTHER -> c
LowerSeq(str) == [i \in DOMAIN str |-> LowerChar(str[i])]

\* dict.get(key, default)
Get(dict, key, default) == IF key \in DOMAIN dict THEN dict[key] ELSE default

\* The catalogs: the meta-source's own entry under SelfKey or no such entry,
\* and any provider under each of the other keys that are present.
Catalogs ==
    UNION {[K -> Delegates \cup {MetaName}] : K \in SUBSET (OtherKeys \cup {SelfKey})}
RealCatalogs ==
    {c \in Catalogs : \A k \in DOMAIN c : (c[k] = MetaName) <=> (k = SelfKey)}

CategoryLists == {<<>>, <<"nature", "city">>}
MoodLists == {<<>>, <<"", "calm">>}
CategoryDicts == UNION {[D -> CategoryLists] : D \in SUBSET Delegates}
MoodDicts == UNION {[D -> MoodLists] : D \in SUBSET Delegates}

\* What a caller may pass.
CallerCategories == {"random", "Random", "nature"}
CallerMoods == {"", "dark"}

MetaInit ==
    /\ providers \in RealCatalogs
    /\ categories \in CategoryDicts
    /\ moods \in MoodDicts
    /\ rpc = "idle" /\ category = "" /\ mood = "" /\ pid = ""
    /\ target_cat = "" /\ target_mood = "" /\ delegated = 0
    /\ routcome = "none" /\ dres = "none" /\ ncalls = 0
    /\ RaceIdle
    /\ SrchIdle
    /\ AuxIdle

\* What a delegate's download_image can end in: its bytes, or a RuntimeError.
DelegateResults == {"bytes", "NotFound", "NetworkError"}

\* valid_keys = [k for k in self.providers.keys() if k != "0"] without the
\* filter.
valid_keys_unfiltered == DOMAIN providers

\* valid_keys = [k for k in self.providers.keys() if k != "0"]
valid_keys == {k \in DOMAIN providers : k # SelfKey}

\* The category handed on as the caller gave it, "random" included.
TargetCategories_passthrough(p_name, cat) == {cat}

\* The categories random.choice can draw for provider p_name when the caller
\* passed "random"; the caller's category otherwise.
TargetCategories(p_name, cat) ==
    IF Lower(cat) = "random"
    THEN LET cats == Get(categories, p_name, <<"Random">>)
         IN  IF cats # <<>> THEN Range(cats) ELSE {"Random"}
    ELSE {cat}

\* The mood drawn from the provider's list whatever the caller passed.
TargetMoods_always_draw(p_name, m) ==
    LET ms == Get(moods, p_name, <<"">>)
    IN  IF ms # <<>> THEN Range(ms) ELSE {m}

\* The moods random.choice can draw when the caller passed no mood.
TargetMoods(p_name, m) ==
    IF m = ""
    THEN LET ms == Get(moods, p_name, <<"">>)
         IN  IF ms # <<>> THEN Range(ms) ELSE {m}
    ELSE {m}

\* download_image without the "if not valid_keys" test: random.choice raises
\* IndexError on an empty list.
MetaDownload_unchecked ==
    /\ rpc \in {"idle", "done"}
    /\ ncalls < MaxCalls
    /\ ncalls' = ncalls + 1
    /\ \E c \in CallerCategories, m \in CallerMoods :
        /\ category' = c
        /\ mood' = m
        /\ IF valid_keys = {}
           THEN /\ routcome' = "IndexError"
                /\ rpc' = "done"
                /\ pid' = ""
                /\ target_cat' = ""
                /\ target_mood' = ""
                /\ delegated' = 0
                /\ dres' = "none"
           ELSE \E k \in valid_keys :
                  /\ pid' = k
                  /\ target_cat' \in TargetCategories(providers[k], c)
                  /\ target_mood' \in TargetMoods(providers[k], m)
                  /\ delegated' = 1
                  /\ routcome' = "none"
                  /\ dres' = "none"
                  /\ rpc' = "delegated"
    /\ UNCHANGED <<providers, categories, moods, raceVars, srchVars, auxVars>>

\* download_image(category, mood) up to the delegate's call: the failure
\* when no other provider is available, else the draws and the delegation.
MetaDownload ==
    /\ rpc \in {"idle", "done"}
    /\ ncalls < MaxCalls
    /\ ncalls' = ncalls + 1
    /\ \E c \in CallerCategories, m \in CallerMoods :
        /\ category' = c
        /\ mood' = m
        /\ IF valid_keys = {}
           THEN /\ routcome' = "NoOtherProviders"
                /\ rpc' = "done"
                /\ pid' = ""
                /\ target_cat' = ""
                /\ target_mood' = ""
                /\ delegated' = 0
                /\ dres' = "none"
           ELSE \E k \in valid_keys :
                  /\ pid' = k
                  /\ target_cat' \in TargetCategories(providers[k], c)
                  /\ target_mood' \in TargetMoods(providers[k], m)
                  /\ delegated' = 1
                  /\ routcome' = "none"
                  /\ dres' = "none"
                  /\ rpc' = "delegated"
    /\ UNCHANGED <<providers, categories, moods, raceVars, srchVars, auxVars>>

\* The delegate's call wrapped in a retry: after a failure another provider
\* is drawn and called.
DelegateReturns_retry ==
    /\ rpc = "delegated"
    /\ \E r \in DelegateResults :
        /\ dres' = r
        /\ IF r # "bytes" /\ delegated = 1 /\ valid_keys \ {pid} # {}
           THEN /\ pid' \in valid_keys \ {pid}
                /\ delegated' = delegated + 1
                /\ UNCHANGED <<rpc, routcome>>
           ELSE /\ routcome' = r
                /\ rpc' = "done"
                /\ UNCHANGED <<pid, delegated>>
    /\ UNCHANGED <<providers, categories, moods, category, mood,
                   target_cat, target_mood, ncalls, raceVars, srchVars, auxVars>>

\* return provider.download_image(target_cat, target_mood): the delegate's
\* bytes are returned, its RuntimeError propagates.
DelegateReturns ==
    /\ rpc = "delegated"
    /\ \E r \in DelegateResults :
        /\ dres' = r
        /\ routcome' = r
    /\ rpc' = "done"
    /\ UNCHANGED <<providers, categories, moods, category, mood, pid,
                   target_cat, target_mood, delegated, ncalls, raceVars,
                   srchVars, auxVars>>

MetaNext ==
    \/ MetaDownload
    \/ DelegateReturns

SpecMeta == MetaInit /\ [][MetaNext]_vars

\* ------------------------------------------------- claims: meta-source
\* C1: whatever the catalog holds beside the meta-source's own entry, and
\* whatever is drawn in a sequence of calls, the provider a call delegates to
\* is never the meta-source itself.
C1_NeverDelegatesToSelf ==
    (delegated > 0) => (pid \in DOMAIN providers /\ providers[pid] # MetaName)

\* The catalog holds the meta-source's own entry, and a second call has
\* delegated to another provider.
C1_Witness ==
    /\ SelfKey \in DOMAIN providers
    /\ ncalls = 2 /\ rpc = "delegated" /\ providers[pid] \in Delegates

\* The category and mood lists the catalog holds for the chosen delegate
\* (<<>>: it holds none).
DelegateCategories == Get(categories, providers[pid], <<>>)
DelegateMoods == Get(moods, providers[pid], <<>>)

\* C12 as stated: whenever download_image is called with the category
\* "random", the category passed to the delegate is a member of the delegate's
\* own category list, for every catalog and every draw.
C12_RandomCategoryFromDelegateList ==
    (delegated > 0 /\ category = "random")
    => target_cat \in Range(DelegateCategories)

\* C12 amended: when the category is "random" in any letter case, the
\* category passed to the delegate is a member of the delegate's category list
\* if the catalog holds a non-empty list for it, and is the literal "Random"
\* if the catalog holds no list, or an empty one, for the delegate.
C12_RandomCategoryFromListOrDefault ==
    (delegated > 0 /\ Lower(category) = "random")
    => IF DelegateCategories # <<>>
       THEN target_cat \in Range(DelegateCategories)
       ELSE target_cat = "Random"

\* A "random" call on its second round drew a category of the delegate's list.
C12_Witness ==
    /\ ncalls = 2 /\ rpc = "delegated" /\ category = "random"
    /\ DelegateCategories # <<>>
    /\ target_cat \in Range(DelegateCategories)

\* C13 as stated: a category other than "random" and a non-empty mood reach
\* the delegate exactly as given, and an empty mood is replaced by a member of
\* the delegate's mood list.
C13_ConcreteInputsForwarded ==
    (delegated > 0)
    => /\ category # "random" => target_cat = category
       /\ mood # "" => target_mood = mood
       /\ mood = "" => target_mood \in Range(DelegateMoods)

\* C13 amended: a category that is not "random" in any letter case and a
\* non-empty mood reach the delegate exactly as given; an empty mood is
\* replaced by a member of the delegate's mood list if the catalog holds a
\* non-empty list for it, and stays empty otherwise.
C13_ConcreteInputsForwardedAnyCase ==
    (delegated > 0)
    => /\ Lower(category) # "random" => target_cat = category
       /\ mood # "" => target_mood = mood
       /\ mood = "" => IF DelegateMoods # <<>>
                       THEN target_mood \in Range(DelegateMoods)
                       ELSE target_mood = ""

\* A concrete category and mood were handed on while the catalog holds other
\* categories and moods for the delegate.
C13_Witness ==
    /\ rpc = "delegated" /\ category = "nature" /\ mood = "dark"
    /\ target_cat = "nature" /\ target_mood = "dark"
    /\ DelegateCategories # <<>> /\ DelegateMoods # <<>>

\* C14 as stated: every call invokes download_image on exactly one delegate,
\* exactly once, and ends with what that delegate returned or raised.
C14_ExactlyOneDelegateCall ==
    /\ delegated <= 1
    /\ rpc = "done" => (delegated = 1 /\ routcome = dres)

\* C14 amended: a call on a catalog that holds another provider invokes
\* download_image on exactly one delegate, exactly once, and ends with what
\* that delegate returned or raised, with no second source tried; a call on a
\* catalog that holds no other provider invokes no delegate and fails.
C14_OneDelegateCallOrNoProviders ==
    /\ delegated <= 1
    /\ rpc = "delegated" => delegated = 1
    /\ rpc = "done"
         => IF valid_keys = {}
            THEN delegated = 0 /\ routcome = "NoOtherProviders"
            ELSE delegated = 1 /\ dres \in DelegateResults /\ routcome = dres

\* The delegate failed, another provider was available, and the call ended
\* with the delegate's failure.
C14_Witness ==
    /\ rpc = "done" /\ delegated = 1 /\ Cardinality(valid_keys) > 1
    /\ dres = "NetworkError" /\ routcome = "NetworkError"

\* C30: when the catalog holds no entry other than the meta-source's own,
\* every download_image fails with "No other providers available": no
\* delegate is called, no key is drawn and the meta-source is never entered
\* again from within its own call.
C30_NoOtherProvidersFails ==
    (DOMAIN providers \subseteq {SelfKey})
    => /\ delegated = 0 /\ pid = "" /\ dres = "none"
       /\ rpc # "delegated"
       /\ ncalls > 0 => (rpc = "done" /\ routcome = "NoOtherProviders")

\* The catalog holds the meta-source alone and a call has failed.
C30_Witness ==
    /\ DOMAIN providers = {SelfKey} /\ providers[SelfKey] = MetaName
    /\ ncalls > 0 /\ rpc = "done" /\ routcome = "NoOtherProviders"
    /\ category = "random"

\* ================================================ single-source resolvers
Resolvers == {"Pexels", "Pixabay", "Unsplash", "Wallhaven",
              "Library of Congress", "Waifu.pics"}

\* What an upstream query can come back with: _fetch_json raises for a
\* transport error, a non-success status (raise_for_status) and a body that is
\* not JSON; otherwise the JSON holds an empty result list, lacks the result
\* field, holds a well-formed hit, or holds a hit without the image field.
FetchErrors == {"transport_error", "bad_status", "bad_json"}
QueryResponses == FetchErrors \cup {"empty", "missing_field", "hits", "malformed_hit"}

\* The RuntimeError _fetch_json raises for a response.
FetchFailure(resp) == IF resp = "bad_json" THEN "InvalidJSON" ELSE "NetworkError"

\* "if not self.api_key: raise" with Pexels left out.
RequiresKey_pexels_optional(p) == p \in {"Pixabay", "Unsplash"}

\* The providers whose download_image raises when no API key is set.
RequiresKey(p) == p \in {"Pexels", "Pixabay", "Unsplash"}

\* query = category, or f"{category} {mood}" when a mood is given: the words
\* of the search term.
Query(cat, m) == IF m # "" THEN <<cat, m>> ELSE <<cat>>

\* The search term of the provider's query (<<>>: the parameter is omitted).
SearchTerm(p, cat, m) ==
    CASE p \in {"Pexels", "Pixabay", "Wallhaven"} -> Query(cat, m)
      [] p = "Unsplash" ->
            \* if query and query.lower() != "random": params["query"] = query
            IF Query(cat, m) # <<"">> /\ <<Lower(cat)>> \o Tail(Query(cat, m)) # <<"random">>
            THEN Query(cat, m) ELSE <<>>
      [] p = "Library of Congress" ->
            <<IF Lower(cat) # "random" THEN cat ELSE "history">>
      [] p = "Waifu.pics" ->
            <<IF Lower(cat) = "random" THEN "waifu" ELSE Lower(cat)>>

\* The pages random.randint can draw (0: the provider sends no page).
Pages(p) ==
    CASE p \in {"Pexels", "Pixabay"} -> 1..max_page
      [] p = "Library of Congress" -> 1..loc_max_page
      [] OTHER -> {0}

SearchRequest(term, page) == [kind |-> "search", term |-> term, page |-> page]
ImageRequest == [kind |-> "image", term |-> <<>>, page |-> 0]

Searches == {i \in 1..Len(slog) : slog[i].kind = "search"}

\* What download_image does with the response to its n-th query:
\*   <<"retry", term>>  the fallback query (page 1, or the 'waifu' category)
\*   <<"raise", kind>>  the call fails
\*   <<"fetch">>        the image URL was extracted: _download_bytes is called

\* PexelsProvider without its fallback to page 1.
PexelsAfterQuery_no_fallback(n, resp, page, term) ==
    IF resp \in FetchErrors THEN <<"raise", FetchFailure(resp)>>
    ELSE IF resp \in {"empty", "missing_field"} THEN <<"raise", "NotFound">>
    ELSE IF resp = "hits" THEN <<"fetch">>
    ELSE <<"raise", "UnexpectedResponseFormat">>

\* PexelsProvider with the first query wrapped in "except RuntimeError", the
\* way LibraryOfCongressProvider does.
PexelsAfterQuery_retry_on_error(n, resp, page, term) ==
    IF resp \in FetchErrors
    THEN IF n = 1 /\ page # 1
         THEN <<"retry", term>>
         ELSE <<"raise", FetchFailure(resp)>>
    ELSE IF resp \in {"empty", "missing_field"}
         THEN IF n = 1 /\ page # 1
              THEN <<"retry", term>>
              ELSE <<"raise", "NotFound">>
    ELSE IF resp = "hits" THEN <<"fetch">>
    ELSE <<"raise", "UnexpectedResponseFormat">>

PexelsAfterQuery(n, resp, page, term) ==
    IF resp \in FetchErrors THEN <<"raise", FetchFailure(resp)>>
    ELSE IF resp \in {"empty", "missing_field"}      \* not data.get("photos")
         THEN IF n = 1 /\ page # 1
              THEN <<"retry", term>>                 \* params["page"] = 1
              ELSE <<"raise", "NotFound">>
    ELSE IF resp = "hits" THEN <<"fetch">>
    ELSE <<"raise", "UnexpectedResponseFormat">>     \* except (KeyError, ..)

PixabayAfterQuery(n, resp, page, term) ==
    IF resp \in FetchErrors THEN <<"raise", FetchFailure(resp)>>
    ELSE IF resp \in {"empty", "missing_field"}      \* not data.get("hits")
         THEN IF n = 1 /\ page # 1
              THEN <<"retry", term>>
              ELSE <<"raise", "NotFound">>
    ELSE IF resp = "hits" THEN <<"fetch">>
    ELSE <<"raise", "DownloadFailed">>               \* _download_bytes(None)

UnsplashAfterQuery(n, resp, page, term) ==
    IF resp \in FetchErrors THEN <<"raise", FetchFailure(resp)>>
    ELSE IF resp = "empty" THEN <<"raise", "IndexError">>      \* data = data[0]
    ELSE IF resp = "hits" THEN <<"fetch">>
    ELSE <<"raise", "UnexpectedResponseFormat">>

WallhavenAfterQuery(n, resp, page, term) ==
    IF resp \in FetchErrors THEN <<"raise", FetchFailure(resp)>>
    ELSE IF resp \in {"empty", "missing_field"} THEN <<"raise", "NotFound">>
    ELSE IF resp = "hits" THEN <<"fetch">>
    ELSE <<"raise", "UnexpectedResponseFormat">>

LocAfterQuery(n, resp, page, term) ==
    IF resp \in FetchErrors
    THEN IF n = 1 /\ page # 1                        \* except RuntimeError:
         THEN <<"retry", term>>                      \* params["sp"] = 1
         ELSE <<"raise", FetchFailure(resp)>>
    ELSE IF resp \in {"empty", "missing_field"} THEN <<"raise", "NotFound">>
    ELSE IF resp = "hits" THEN <<"fetch">>
    ELSE <<"raise", "NoValidImages">>

WaifuPicsAfterQuery(n, resp, page, term) ==
    IF resp \in FetchErrors
    THEN IF n = 1 /\ term # <<"waifu">>              \* except RuntimeError:
         THEN <<"retry", <<"waifu">>>>
         ELSE <<"raise", FetchFailure(resp)>>
    ELSE IF resp = "hits" THEN <<"fetch">>
    ELSE <<"raise", "NoImageURL">>

\* What the image request can come back with.
ImageResponses == {"ok", "ok_empty", "error"}

\* _download_bytes: response.content whatever its length, or the RuntimeError
\* for a RequestException (transport error, raise_for_status).
download_bytes(img) ==
    CASE img = "ok"       -> "bytes"
      [] img = "ok_empty" -> "empty_bytes"        \* return response.content (b"")
      [] OTHER            -> "DownloadFailed"

\* The image URL lists a hit can hold: one URL for the providers that read a
\* single field, up to two (ascending in size) for Library of Congress.
HitUrls(p) ==
    IF p = "Library of Congress"
    THEN {<<<<"a", "jpg">>>>, <<<<"a", "tif">>>>,
          <<<<"a", "jpg">>, <<"b", "jpg">>>>, <<<<"a", "jpg">>, <<"b", "tif">>>>}
    ELSE {<<<<"a", "jpg">>>>, <<<<"a", "tif">>>>}

\* u.lower().endswith(".jpg") or ... (".jpeg") or ... (".png")
ImageExtensions == {"jpg", "jpeg", "png"}

\* The image URL taken from the hit without looking at the extension: the
\* first of the list.
ImageUrl_first(p, urls) == urls[1]

\* The URL download_image takes from the hit: the single URL field; for
\* Library of Congress the last URL of the list that ends in an image
\* extension (<<>>: best_url stays None).
ImageUrl(p, urls) ==
    IF p = "Library of Congress"
    THEN LET good == {i \in DOMAIN urls : urls[i][2] \in ImageExtensions}
         IN  IF good = {} THEN <<>>
             ELSE urls[CHOOSE i \in good : \A j \in good : j <= i]
    ELSE urls[1]

AfterQuery(p, n, resp, page, term) ==
    CASE p = "Pexels"              -> PexelsAfterQuery(n, resp, page, term)
      [] p = "Pixabay"             -> PixabayAfterQuery(n, resp, page, term)
      [] p = "Unsplash"            -> UnsplashAfterQuery(n, resp, page, term)
      [] p = "Wallhaven"           -> WallhavenAfterQuery(n, resp, page, term)
      [] p = "Library of Congress" -> LocAfterQuery(n, resp, page, term)
      [] p = "Waifu.pics"          -> WaifuPicsAfterQuery(n, resp, page, term)

\* The upstream is fixed by Init: what it answers to the first query, to the
\* fallback query (a different page or category) and to the image request.
SrchInit ==
    /\ sprov \in Resolvers
    /\ skey \in BOOLEAN
    /\ scat \in CallerCategories
    /\ smood \in CallerMoods
    /\ sans \in [1..2 -> QueryResponses]
    /\ shit \in HitUrls(sprov)
    /\ surl = <<>>
    /\ simg \in ImageResponses
    /\ spc = "idle" /\ spage = 0 /\ slog = <<>> /\ sresp = <<>>
    /\ sused = 0 /\ sout = "none"
    /\ RaceIdle
    /\ MetaIdle
    /\ AuxIdle

\* download_image(category, mood) up to its first HTTP request: the API key
\* check, the query, the page draw.
Resolve ==
    /\ spc = "idle"
    /\ IF RequiresKey(sprov) /\ ~skey
       THEN /\ sout' = "AuthMissing"
            /\ spc' = "done"
            /\ UNCHANGED <<spage, slog>>
       ELSE \E page \in Pages(sprov) :
              /\ spage' = page
              /\ slog' = <<SearchRequest(SearchTerm(sprov, scat, smood), page)>>
              /\ spc' = "search"
              /\ UNCHANGED sout
    /\ UNCHANGED <<sprov, skey, scat, smood, sans, shit, surl, simg, sresp, sused,
                   raceVars, metaVars, auxVars>>

\* The response to the outstanding query arrives and download_image goes on
\* to its next HTTP request or to its failure.
QueryResponse ==
    /\ spc = "search"
    /\ LET n    == Len(sresp) + 1
           resp == sans[n]
           term == slog[Len(slog)].term
           next == AfterQuery(sprov, n, resp, spage, term)
       IN  /\ sresp' = Append(sresp, resp)
           /\ CASE next[1] = "retry" ->
                     /\ slog' = Append(slog, SearchRequest(next[2],
                                    IF spage = 0 THEN 0 ELSE 1))
                     /\ UNCHANGED <<spc, sout, sused, surl>>
                [] next[1] = "raise" ->
                     /\ sout' = next[2]
                     /\ spc' = "done"
                     /\ UNCHANGED <<slog, sused, surl>>
                [] OTHER ->
                     IF ImageUrl(sprov, shit) = <<>>
                     THEN /\ sout' = "NoValidImages"   \* if not valid_images
                          /\ spc' = "done"
                          /\ UNCHANGED <<slog, sused, surl>>
                     ELSE /\ slog' = Append(slog, ImageRequest)
                          /\ surl' = ImageUrl(sprov, shit)
                          /\ sused' = n
                          /\ spc' = "image"
                          /\ UNCHANGED sout
    /\ UNCHANGED <<sprov, skey, scat, smood, sans, shit, simg, spage, raceVars,
                   metaVars, auxVars>>

\* _download_bytes: the image response arrives.
ImageResponse ==
    /\ spc = "image"
    /\ sout' = download_bytes(simg)
    /\ spc' = "done"
    /\ UNCHANGED <<sprov, skey, scat, smood, sans, shit, surl, simg, spage, slog,
                   sresp, sused, raceVars, metaVars, auxVars>>

SrchNext ==
    \/ Resolve
    \/ QueryResponse
    \/ ImageResponse

SpecSearch == SrchInit /\ [][SrchNext]_vars

\* --------------------------------------- claims: single-source resolvers
FallbackProviders == {"Pexels", "Pixabay"}
EmptyResults == {"empty", "missing_field"}

\* C7: for Pexels and Pixabay, when the search on the randomized page comes
\* back empty and the search on page 1 comes back with hits, download_image
\* makes exactly two search requests, the second one for page 1, takes the
\* image from the page-1 data and returns its bytes (the image download
\* succeeding).
C7_FallbackToPageOne ==
    (sprov \in FallbackProviders /\ spc = "done" /\ sout # "AuthMissing"
       /\ spage # 1 /\ sans[1] = "empty" /\ sans[2] = "hits")
    => /\ Cardinality(Searches) = 2
       /\ slog[2].kind = "search" /\ slog[2].page = 1
       /\ slog[2].term = slog[1].term
       /\ sused = 2
       /\ simg = "ok" => sout = "bytes"
       /\ simg = "error" => sout = "DownloadFailed"

\* The fallback happened and the call returned the image of the page-1 hit.
C7_Witness ==
    /\ sprov = "Pixabay" /\ spc = "done" /\ spage > 1
    /\ sresp = <<"empty", "hits">> /\ sout = "bytes"
    /\ Cardinality(Searches) = 2

C8_Fallback(p, first, page, term) ==
    \/ p \in FallbackProviders /\ first \in EmptyResults /\ page > 1
    \/ p = "Library of Congress" /\ first \in FetchErrors /\ page > 1
    \/ p = "Waifu.pics" /\ first \in FetchErrors /\ term # <<"waifu">>

C9_NoLiteralRandomTerm ==
    (scat = "random")
    => \A i \in Searches : "random" \notin Range(slog[i].term)

C11_NonEmptyPayloadOrFailure ==
    (spc = "done") => (sout # "none" /\ sout # "empty_bytes")

\* C16: a response that lacks the expected field (the result list, or the
\* image field of a hit) ends the call in UnexpectedResponseFormat, and a
\* well-formed response with an empty result list ends it in NotFound, so the
\* two cases never end in the same failure (Pexels, Wallhaven).
C16_FormatFailureDistinctFromNotFound ==
    (sprov \in {"Pexels", "Wallhaven"} /\ spc = "done" /\ Len(sresp) >= 1)
    => LET last == sresp[Len(sresp)]
       IN  /\ last \in {"missing_field", "malformed_hit"}
                => sout = "UnexpectedResponseFormat"
           /\ last = "empty" => sout = "NotFound"

\* The exception types that are not the declared failure type RuntimeError.
UndeclaredExceptions == {"IndexError", "KeyError", "TypeError", "AttributeError"}

\* C17: whatever the upstream answers, a download_image call that fails
\* raises a RuntimeError: no IndexError, KeyError, TypeError or
\* AttributeError escapes it.
C17_OnlyRuntimeErrorEscapes ==
    (spc = "done") => sout \notin UndeclaredExceptions

MaxRequests == 2

\* A resolution string, as the sequence of its characters.
ResolutionStrings == {
    <<"1", "9", "2", "0", "x", "1", "0", "8", "0">>,
    <<"2", "5", "6", "0", "x", "1", "4", "4", "0">>,
    <<"1", "0", "8", "0", "x", "1", "9", "2", "0">>,
    <<"1", "0", "0", "0", "x", "1", "0", "0", "0">>,
    <<"1", "9", "2", "0", "X", "1", "0", "8", "0">>,
    <<"8", "0", "0", "x", "a", "b">>,
    <<"1", "9", "2", "0">>,
    <<"0", "x", "0">>,
    <<"-", "5", "x", "3">>,
    <<>> }

WidthHeightProviders == {"LoremFlickr", "PlaceBear", "PlaceDog", "DummyJSON"}
ResolutionProviders == {"Unsplash", "Wallhaven"} \cup WidthHeightProviders

Digits == {"0", "1", "2", "3", "4", "5", "6", "7", "8", "9"}
DigitVal(c) == CHOOSE n \in 0..9 : ToString(n) = c

RECURSIVE DigitsVal(_)
\* The number a sequence of decimal digits denotes.
DigitsVal(ds) ==
    IF ds = <<>> THEN 0
    ELSE DigitsVal(SubSeq(ds, 1, Len(ds) - 1)) * 10 + DigitVal(ds[Len(ds)])

\* int(part) succeeds: an optional sign and at least one digit.
IsInt(part) ==
    LET body == IF part # <<>> /\ part[1] \in {"-", "+"} THEN Tail(part) ELSE part
    IN  body # <<>> /\ \A i \in DOMAIN body : body[i] \in Digits

\* int(part)
ToInt(part) ==
    IF part[1] = "-" THEN 0 - DigitsVal(Tail(part))
    ELSE IF part[1] = "+" THEN DigitsVal(Tail(part))
    ELSE DigitsVal(part)

RECURSIVE Split(_)
\* str.split("x")
Split(str) ==
    IF "x" \notin Range(str) THEN <<str>>
    ELSE LET i == CHOOSE k \in DOMAIN str :
                    str[k] = "x" /\ \A j \in 1..(k - 1) : str[j] # "x"
         IN  <<SubSeq(str, 1, i - 1)>> \o Split(SubSeq(str, i + 1, Len(str)))

\* if "x" in resolution: parts = resolution.lower().split("x");
\* if len(parts) >= 2: ...     (<<>> when one of the tests fails)
Parts(str) ==
    IF "x" \in Range(str) /\ Len(Split(LowerSeq(str))) >= 2
    THEN Split(LowerSeq(str)) ELSE <<>>

Abs(n) == IF n < 0 THEN 0 - n ELSE n

RECURSIVE GCD(_, _)
\* math.gcd
GCD(a, b) == IF b = 0 THEN Abs(a) ELSE GCD(Abs(b), Abs(a) % Abs(b))

\* The orientation for a width and a height with the squarish case left out.
Orientation_no_square(res) ==
    IF res[1] > res[2] THEN "landscape" ELSE "portrait"

\* UnsplashProvider.set_resolution: the orientation for a width and height.
Orientation(res) ==
    IF res[1] > res[2] THEN "landscape"
    ELSE IF res[2] > res[1] THEN "portrait"
    ELSE "squarish"

\* The ratio without the division by the gcd.
Ratio_unreduced(res) == res

\* WallhavenProvider.set_resolution: f"{w_ratio}x{h_ratio}".
Ratio(res) == <<res[1] \div GCD(res[1], res[2]), res[2] \div GCD(res[1], res[2])>>

\* The hint a resolution <<width, height>> gives for provider p.
Hint(p, res) ==
    CASE p = "Unsplash"  -> Orientation(res)
      [] p = "Wallhaven" -> Ratio(res)
      [] OTHER           -> res

\* The fields of the instance after set_resolution(str), and whether the call
\* raised.
set_resolution(p, str, o, rt, w, h) ==
    LET parts == Parts(str)
        same  == [orientation |-> o, ratios |-> rt, width |-> w, height |-> h,
                  raised |-> FALSE]
    IN  IF parts = <<>> THEN same
        ELSE IF p \in WidthHeightProviders
        THEN \* self.width = int(parts[0]); self.height = int(parts[1])
             IF ~IsInt(parts[1]) THEN same
             ELSE IF ~IsInt(parts[2]) THEN [same EXCEPT !.width = ToInt(parts[1])]
             ELSE [same EXCEPT !.width = ToInt(parts[1]), !.height = ToInt(parts[2])]
        ELSE \* width, height = int(parts[0]), int(parts[1])
             IF ~IsInt(parts[1]) \/ ~IsInt(parts[2]) THEN same    \* except ValueError
             ELSE LET res == <<ToInt(parts[1]), ToInt(parts[2])>>
                  IN  IF p = "Unsplash"
                      THEN [same EXCEPT !.orientation = Orientation(res)]
                      ELSE IF GCD(res[1], res[2]) = 0
                           THEN [same EXCEPT !.raised = TRUE]  \* ZeroDivisionError
                           ELSE [same EXCEPT !.ratios = Ratio(res)]

Requests == 1..MaxRequests

ResInit ==
    /\ rprov \in ResolutionProviders
    /\ orientation = "landscape"                \* __init__
    /\ ratios = <<>>                            \* __init__
    /\ width = 1920 /\ height = 1080            \* __init__
    /\ reqres \in [Requests -> ResolutionStrings]
    /\ reqpc = [r \in Requests |-> "new"]
    /\ reqhint = [r \in Requests |-> "none"]
    /\ RaceIdle
    /\ MetaIdle
    /\ SrchIdle
    /\ CliIdle
    /\ SafeIdle
    /\ GuiIdle

\* provider.set_resolution(resolution) of request r: the hint is stored in
\* the instance, or the call raises.
SetResolution(r) ==
    /\ reqpc[r] = "new"
    /\ LET out == set_resolution(rprov, reqres[r], orientation, ratios, width, height)
       IN  /\ orientation' = out.orientation
           /\ ratios' = out.ratios
           /\ width' = out.width
           /\ height' = out.height
           /\ reqpc' = [reqpc EXCEPT ![r] = IF out.raised THEN "raised"
                                                          ELSE "configured"]
    /\ UNCHANGED <<rprov, reqres, reqhint, coreVars, cliVars, safeVars, guiVars>>

\* provider.download_image(category, mood) of request r builds its query:
\* params = {"orientation": self.orientation, ...}, params["ratios"] =
\* self.ratios (if self.ratios), or the URL with self.width and self.height.
\* A request may call it without a set_resolution before ("sent_default").
DownloadImage(r) ==
    /\ reqpc[r] \in {"new", "configured"}
    /\ reqhint' = [reqhint EXCEPT ![r] =
                     CASE rprov = "Unsplash"  -> orientation
                       [] rprov = "Wallhaven" -> ratios
                       [] OTHER               -> <<width, height>>]
    /\ reqpc' = [reqpc EXCEPT ![r] = IF reqpc[r] = "new" THEN "sent_default"
                                                          ELSE "sent"]
    /\ UNCHANGED <<rprov, orientation, ratios, width, height, reqres, coreVars,
                   cliVars, safeVars, guiVars>>

ResNext ==
    \/ \E r \in Requests : SetResolution(r)
    \/ \E r \in Requests : DownloadImage(r)

SpecRes == ResInit /\ [][ResNext]_vars

\* The string is a well-formed WxH pair of positive integers.
PlainWxH(str) ==
    \E i \in DOMAIN str :
        /\ str[i] = "x"
        /\ i > 1 /\ i < Len(str)
        /\ \A j \in DOMAIN str : j # i => str[j] \in Digits
        /\ DigitsVal(SubSeq(str, 1, i - 1)) > 0
        /\ DigitsVal(SubSeq(str, i + 1, Len(str))) > 0

\* W and H of a well-formed string.
Dim(str) ==
    LET i == CHOOSE k \in DOMAIN str : str[k] = "x"
    IN  <<DigitsVal(SubSeq(str, 1, i - 1)), DigitsVal(SubSeq(str, i + 1, Len(str)))>>

\* The step is the set_resolution call, or the download_image call, of r.
CallsSetResolution(r) == reqpc[r] = "new" /\ reqpc'[r] \in {"configured", "raised"}
CallsDownloadImage(r) ==
    reqpc[r] \in {"new", "configured"} /\ reqpc'[r] \in {"sent", "sent_default"}

\* No set_resolution call has been made on the instance.
NothingSet == \A r \in Requests : reqpc[r] \in {"new", "sent_default"}

\* C15: when requests with different target resolutions are in flight on the
\* same provider instance (each set_resolution, then download_image), the
\* outgoing query of each carries the hint derived from its own resolution.
C15_NoResolutionLeak ==
    \A r \in Requests :
        (reqpc[r] = "sent" /\ PlainWxH(reqres[r]))
        => reqhint[r] = Hint(rprov, Dim(reqres[r]))

\* What a step of an Unsplash instance does to the orientation and the request.
UnsplashStep ==
    rprov = "Unsplash" =>
         /\ NothingSet => orientation = "landscape"
         /\ \A r \in Requests :
              /\ (CallsSetResolution(r) /\ PlainWxH(reqres[r]))
                   => LET W == Dim(reqres[r])[1]
                          H == Dim(reqres[r])[2]
                      IN  orientation' = CASE W > H -> "landscape"
                                           [] H > W -> "portrait"
                                           [] OTHER -> "squarish"
              /\ CallsDownloadImage(r)
                   => /\ reqhint'[r] = orientation
                      /\ NothingSet => reqhint'[r] = "landscape"

\* C22: UnsplashProvider's orientation is 'landscape' until a resolution is
\* set; a set_resolution("WxH") makes it 'landscape' when W > H, 'portrait'
\* when H > W and 'squarish' when W = H; every download_image sends the
\* orientation the instance holds, that of the most recent set_resolution.
C22_UnsplashOrientation == [][UnsplashStep]_vars

\* One request sent the default orientation, and after a set_resolution of a
\* square resolution another request sent 'squarish'.
C22_Witness ==
    /\ rprov = "Unsplash"
    /\ reqpc[1] = "sent_default" /\ reqhint[1] = "landscape"
    /\ reqres[2] = <<"1", "0", "0", "0", "x", "1", "0", "0", "0">>
    /\ reqpc[2] = "sent" /\ reqhint[2] = "squarish"

\* No number greater than one divides both a and b.
Coprime(a, b) == \A d \in 2..(IF a < b THEN a ELSE b) : ~(a % d = 0 /\ b % d = 0)

\* What a step of a Wallhaven instance does to the ratio and the request.
WallhavenStep ==
    rprov = "Wallhaven" =>
         /\ NothingSet => ratios = <<>>
         /\ \A r \in Requests :
              /\ (CallsSetResolution(r) /\ PlainWxH(reqres[r]))
                   => LET W == Dim(reqres[r])[1]
                          H == Dim(reqres[r])[2]
                      IN  /\ reqpc'[r] = "configured"
                          /\ ratios'[1] * H = ratios'[2] * W
                          /\ ratios'[1] > 0 /\ ratios'[2] > 0
                          /\ Coprime(ratios'[1], ratios'[2])
                          /\ (<<W, H>> \in {<<1920, 1080>>, <<2560, 1440>>})
                               => ratios' = <<16, 9>>
              /\ CallsDownloadImage(r)
                   => /\ reqhint'[r] = ratios
                      /\ NothingSet => reqhint'[r] = <<>>

\* C23: WallhavenProvider sends no ratios parameter until a resolution is
\* set; a set_resolution("WxH") stores W / gcd(W, H) and H / gcd(W, H), the
\* ratio of W to H in lowest terms, so that 1920x1080 and 2560x1440 both give
\* 16x9; every download_image sends the ratio the instance holds.
C23_WallhavenRatios == [][WallhavenStep]_vars

\* Both 1920x1080 and 2560x1440 were set, and both downloads sent 16x9.
C23_Witness ==
    /\ rprov = "Wallhaven"
    /\ reqres[1] = <<"1", "9", "2", "0", "x", "1", "0", "8", "0">>
    /\ reqres[2] = <<"2", "5", "6", "0", "x", "1", "4", "4", "0">>
    /\ reqpc[1] = "sent" /\ reqhint[1] = <<16, 9>>
    /\ reqpc[2] = "sent" /\ reqhint[2] = <<16, 9>>

\* A set_resolution step that updates both dimensions or neither.
AtomicStep ==
    rprov \in WidthHeightProviders =>
         \A r \in Requests :
           CallsSetResolution(r)
           => \/ width' = width /\ height' = height
              \/ /\ Len(Parts(reqres[r])) >= 2
                 /\ IsInt(Parts(reqres[r])[1]) /\ IsInt(Parts(reqres[r])[2])
                 /\ width' = ToInt(Parts(reqres[r])[1])
                 /\ height' = ToInt(Parts(reqres[r])[2])

\* C26: on the providers that store a width and a height, set_resolution
\* either updates both to the parsed values or leaves both as they were.
C26_SetResolutionAtomic == [][AtomicStep]_vars

\* A set_resolution step that returns normally and ignores a malformed string.
QuietStep ==
    \A r \in Requests :
         CallsSetResolution(r)
         => /\ reqpc'[r] # "raised"
            /\ ~PlainWxH(reqres[r])
                 => <<orientation, ratios, width, height>>'
                      = <<orientation, ratios, width, height>>

\* C27: set_resolution never raises, and for a string that is not a
\* well-formed WxH pair of positive integers it leaves the stored hint as it
\* was.
C27_SetResolutionNeverRaises == [][QuietStep]_vars

\* ===================================================== main(): CLI mode
\* Largest number of updates a loop makes in the model.
MaxUpdates == 3

\* config.PROVIDERS, by name (three of its entries), and DEFAULT_PROVIDER.
PROVIDERS == [k \in {"1", "3", "7"} |->
                CASE k = "1" -> "Pexels" [] k = "3" -> "waifu.im" [] OTHER -> "Bing"]
DEFAULT_PROVIDER == "3"

\* What --provider and --loop can be given as.
ProviderArgs == {"", "1", "7", "9", "pexels", "PEXELS", "Pexels", "Bing",
                 "bing", "WAIFU.IM", "pex", "unknown"}
LoopArgs == {0, 1, 5, -1}

\* What run_wallpaper_update can meet: success, or an exception raised by
\* download_image, save_wallpaper or set_wallpaper.
UpdateOutcomes == {"ok", "download_failed", "save_failed", "set_failed"}

\* The name lookup with == in place of the lower-cased comparison.
Lookup_case_sensitive(arg) ==
    IF arg \in DOMAIN PROVIDERS THEN PROVIDERS[arg]
    ELSE IF \E k \in DOMAIN PROVIDERS : PROVIDERS[k] = arg
         THEN CHOOSE n \in Range(PROVIDERS) : n = arg
         ELSE ""

\* The provider for a --provider argument: by key, else by case-insensitive
\* name ("": not found).
Lookup(arg) ==
    IF arg \in DOMAIN PROVIDERS THEN PROVIDERS[arg]
    ELSE IF \E k \in DOMAIN PROVIDERS : Lower(PROVIDERS[k]) = Lower(arg)
         THEN CHOOSE n \in Range(PROVIDERS) : Lower(n) = Lower(arg)
         ELSE ""

CliInit ==
    /\ carg \in ProviderArgs
    /\ cloop \in LoopArgs
    /\ cpc = "start" /\ cprovider = ""
    /\ cexit = "none" /\ cmsg = "none" /\ cdownloads = 0 /\ cfailures = 0
    /\ RaceIdle
    /\ MetaIdle
    /\ SrchIdle
    /\ ResIdle
    /\ SafeIdle
    /\ GuiIdle

\* "Determine Provider": the default provider of loop mode, the lookup, or
\* sys.exit(1).
DetermineProvider ==
    /\ cpc = "start"
    /\ IF carg = ""                                   \* if not provider_arg
       THEN IF cloop # 0
            THEN /\ cprovider' = PROVIDERS[DEFAULT_PROVIDER]
                 /\ cpc' = "update"
                 /\ UNCHANGED <<cexit, cmsg>>
            ELSE /\ cmsg' = "ProviderRequired"
                 /\ cexit' = "1"
                 /\ cpc' = "exited"
                 /\ UNCHANGED cprovider
       ELSE IF Lookup(carg) # ""
            THEN /\ cprovider' = Lookup(carg)
                 /\ cpc' = "update"
                 /\ UNCHANGED <<cexit, cmsg>>
            ELSE /\ cmsg' = "UnknownSource"           \* Provider ... not found.
                 /\ cexit' = "1"
                 /\ cpc' = "exited"
                 /\ UNCHANGED cprovider
    /\ UNCHANGED <<carg, cloop, cdownloads, cfailures, coreVars, resVars, safeVars, guiVars>>

\* run_wallpaper_update: download, save, set; an Exception is caught and
\* reported.  A single run ends the process normally afterwards.
RunUpdate ==
    /\ cpc = "update"
    /\ cdownloads < MaxUpdates
    /\ cdownloads' = cdownloads + 1
    /\ \E o \in UpdateOutcomes :
        IF o = "ok"
        THEN UNCHANGED <<cfailures, cmsg>>
        ELSE /\ cfailures' = cfailures + 1
             /\ cmsg' = "Error updating wallpaper"
    /\ IF cloop # 0
       THEN /\ cpc' = "sleep"
            /\ UNCHANGED cexit
       ELSE /\ cpc' = "exited"
            /\ cexit' = "0"
    /\ UNCHANGED <<carg, cloop, cprovider, coreVars, resVars, safeVars, guiVars>>

\* time.sleep(interval * 60): raises ValueError for a negative length, which
\* no handler of the loop catches.
Sleep ==
    /\ cpc = "sleep"
    /\ IF cloop < 0
       THEN /\ cpc' = "exited"
            /\ cexit' = "ValueError"
       ELSE /\ cpc' = "update"
            /\ UNCHANGED cexit
    /\ UNCHANGED <<carg, cloop, cprovider, cmsg, cdownloads, cfailures,
                   coreVars, resVars, safeVars, guiVars>>

\* Ctrl+C during the loop: except KeyboardInterrupt: sys.exit(0).
KeyboardInterrupt ==
    /\ cpc \in {"update", "sleep"}
    /\ cloop # 0
    /\ cmsg' = "Loop stopped by user"
    /\ cexit' = "0"
    /\ cpc' = "exited"
    /\ UNCHANGED <<carg, cloop, cprovider, cdownloads, cfailures, coreVars,
                   resVars, safeVars, guiVars>>

CliNext ==
    \/ DetermineProvider
    \/ RunUpdate
    \/ Sleep
    \/ KeyboardInterrupt

SpecCli == CliInit /\ [][CliNext]_vars

\* C18: a requested provider is found by exact key or, failing that, by
\* case-insensitive equality with a provider's name, and that provider is the
\* one used; an argument that matches no key and no name ends in the
\* UnknownSource failure (exit status 1) with no download attempted.
C18_LookupByKeyOrName ==
    (carg # "" /\ cpc # "start")
    => IF carg \in DOMAIN PROVIDERS
       THEN cprovider = PROVIDERS[carg]
       ELSE IF \E k \in DOMAIN PROVIDERS : Lower(PROVIDERS[k]) = Lower(carg)
            THEN /\ cprovider \in Range(PROVIDERS)
                 /\ Lower(cprovider) = Lower(carg)
            ELSE /\ cpc = "exited" /\ cexit = "1" /\ cmsg = "UnknownSource"
                 /\ cprovider = "" /\ cdownloads = 0

\* A provider named in another letter case was found and used for a download.
C18_Witness ==
    /\ carg = "PEXELS" /\ cprovider = "Pexels" /\ cdownloads > 0

\* C19: in loop mode a failed update never ends the process: after a failed
\* update the process ends only when the user stops the loop.
C19_FailedUpdateKeepsLooping ==
    (cloop # 0 /\ cfailures > 0 /\ cpc = "exited")
    => cmsg = "Loop stopped by user"

\* ============================================ safe / unsafe axis

\* sub in str
Contains(sub, str) ==
    \E i \in 1..(Len(str) - Len(sub) + 1) : SubSeq(str, i, i + Len(sub) - 1) = sub

\* nsfw_map of CatgirlProvider._map_category_to_nsfw, in insertion order.
nsfw_map == <<
    <<<<"s", "a", "f", "e">>, "false">>,
    <<<<"s", "a", "f", "e", " ", "s", "f", "w">>, "false">>,
    <<<<"s", "f", "w">>, "false">>,
    <<<<"n", "s", "f", "w">>, "true">>,
    <<<<"l", "e", "w", "d">>, "true">>,
    <<<<"m", "i", "x", "e", "d">>, "None">>,
    <<<<"a", "l", "l">>, "None">> >>

SafetyProviders == {"nekos.moe", "Konachan"}
SafetyCategories == {
    <<"n", "s", "f", "w">>,
    <<"N", "S", "F", "W">>,
    <<"l", "e", "w", "d">>,
    <<"s", "a", "f", "e">>,
    <<"s", "f", "w">>,
    <<"a", "l", "l">>,
    <<"m", "i", "x", "e", "d">>,
    <<"c", "a", "t">>,
    <<"b", "a", "l", "l">>,
    <<"n", "s", "f", "w", " ", "c", "a", "t">>,
    <<"l", "e", "w", "d", " ", "c", "a", "t">>,
    <<"r", "a", "n", "d", "o", "m">> }
SafetyMoods == {<<>>, <<"n", "s", "f", "w">>, <<"d", "a", "r", "k">>}
Ratings == {"s", "q", "e"}

\* The unsafe terms.
Nsfw == <<"n", "s", "f", "w">>
Lewd == <<"l", "e", "w", "d">>

\* CatgirlProvider._map_category_to_nsfw
map_category_to_nsfw(cat) ==
    LET category_lower == LowerSeq(cat)
        hits == {i \in DOMAIN nsfw_map : Contains(nsfw_map[i][1], category_lower)}
    IN  IF \E i \in DOMAIN nsfw_map : nsfw_map[i][1] = category_lower
        THEN nsfw_map[CHOOSE i \in DOMAIN nsfw_map : nsfw_map[i][1] = category_lower][2]
        ELSE IF hits # {}
             THEN nsfw_map[CHOOSE i \in hits : \A j \in hits : i <= j][2]
             ELSE "false"

\* KonachanProvider: tags = category, or f"{category} {mood}"
Tags(cat, m) == IF m # <<>> THEN cat \o <<" ">> \o m ELSE cat

\* check_safety = "nsfw" not in tags.lower() and "lewd" not in tags.lower()
check_safety(cat, m) ==
    /\ ~Contains(Nsfw, LowerSeq(Tags(cat, m)))
    /\ ~Contains(Lewd, LowerSeq(Tags(cat, m)))

SafeInit ==
    /\ nprov \in SafetyProviders
    /\ ncat \in SafetyCategories
    /\ nmood \in SafetyMoods
    /\ nposts \in SUBSET Ratings
    /\ nprov = "nekos.moe" => nposts = {}
    /\ npc = "idle" /\ nparam = "none" /\ nsetting = "none" /\ nresult = "none"
    /\ RaceIdle
    /\ MetaIdle
    /\ SrchIdle
    /\ ResIdle
    /\ CliIdle
    /\ GuiIdle

\* download_image up to its query: nekos.moe sends the nsfw parameter of
\* _map_category_to_nsfw (or none); Konachan sends the tags and decides
\* whether the posts will be filtered.
SafeRequest ==
    /\ npc = "idle"
    /\ IF nprov = "nekos.moe"
       THEN /\ nparam' = map_category_to_nsfw(ncat)
            /\ nsetting' = CASE map_category_to_nsfw(ncat) = "false" -> "safe"
                              [] map_category_to_nsfw(ncat) = "true" -> "unsafe"
                              [] OTHER -> "unrestricted"
       ELSE /\ nparam' = "none"
            /\ nsetting' = IF check_safety(ncat, nmood) THEN "safe" ELSE "unrestricted"
    /\ npc' = "request"
    /\ UNCHANGED <<nprov, ncat, nmood, nposts, nresult, coreVars, resVars, cliVars, guiVars>>

\* The response: nekos.moe answers with an image of the subset asked for;
\* Konachan's posts are filtered by rating when check_safety holds and one
\* of the remaining posts is drawn.
SafeResponse ==
    /\ npc = "request"
    /\ IF nprov = "nekos.moe"
       THEN nresult' \in CASE nsetting = "safe" -> {"s"}
                           [] nsetting = "unsafe" -> {"e"}
                           [] OTHER -> {"s", "e"}
       ELSE LET valid_images == IF nsetting = "safe" THEN nposts \cap {"s"} ELSE nposts
            IN  IF valid_images = {}
                THEN nresult' = "NotFound"
                ELSE nresult' \in valid_images
    /\ npc' = "done"
    /\ UNCHANGED <<nprov, ncat, nmood, nposts, nparam, nsetting, coreVars, resVars,
                   cliVars, guiVars>>

SafeNext ==
    \/ SafeRequest
    \/ SafeResponse

SpecSafe == SafeInit /\ [][SafeNext]_vars

\* The string names an unsafe term.
NamesUnsafe(str) == Contains(Nsfw, LowerSeq(str)) \/ Contains(Lewd, LowerSeq(str))

\* C20: the request is restricted to the safe subset, and the image drawn
\* from it, unless the category or the mood names an unsafe term (nsfw,
\* lewd); every category that names an unsafe term selects the unsafe
\* setting.
C20_SafeUnlessUnsafeTermNamed ==
    (npc # "idle")
    => /\ (~NamesUnsafe(ncat) /\ ~NamesUnsafe(nmood))
            => (nsetting = "safe" /\ nresult \in {"none", "s", "NotFound"})
       /\ NamesUnsafe(ncat) => nsetting \in {"unsafe", "unrestricted"}

\* =============================================== GUI: the download worker
\* Largest number of download threads the GUI starts in the model.
MaxDownloads == 2

\* values=[p.get_name() for p in PROVIDERS.values()]
GuiProviders == Range(PROVIDERS)

\* config.CATEGORIES and config.MOODS, two entries of each list.
CATEGORIES ==
    [p \in GuiProviders |->
       CASE p = "Pexels"   -> <<"nature", "landscape">>
         [] p = "waifu.im" -> <<"waifu", "maid">>
         [] OTHER          -> <<"Today", "Yesterday">>]
MOODS ==
    [p \in GuiProviders |->
       CASE p = "Pexels" -> <<"calm", "dark">>
         [] OTHER        -> <<"">>]

\* self.mood_combo['values'] after on_provider_change for provider p.
MoodValues(p) == {"None"} \cup {m \in Range(MOODS[p]) : m # ""}

\* The worker threads, numbered in the order they are started.
Threads == 1..MaxDownloads
Live == {t \in Threads : wpc[t] \in {"started", "downloading"}}
Unborn == {t \in Threads : wpc[t] = "unborn"}

\* __init__ and setup_ui: provider_combo.current(0); self.on_provider_change()
GuiInit ==
    /\ provider_var = "Pexels"
    /\ current_provider = "Pexels"
    /\ category_var = CATEGORIES["Pexels"][1]
    /\ mood_var = "None"
    /\ downloading = FALSE
    /\ download_button = "normal"
    /\ randomize_button = "normal"
    /\ click = "none"
    /\ wpc = [t \in Threads |-> "unborn"]
    /\ wargs = <<>>
    /\ wclick = ""
    /\ wused = ""
    /\ wres = [t \in Threads |-> "none"]
    /\ afterq = 0
    /\ completed = 0
    /\ RaceIdle
    /\ MetaIdle
    /\ SrchIdle
    /\ ResIdle
    /\ CliIdle
    /\ SafeIdle

\* <<ComboboxSelected>> on the provider combobox, then on_provider_change: the
\* provider instance, the first category and the mood "None" are selected.
OnProviderChange ==
    /\ \E p \in GuiProviders :
         /\ provider_var' = p
         /\ current_provider' = p
         /\ category_var' = IF CATEGORIES[p] # <<>> THEN CATEGORIES[p][1]
                            ELSE category_var
         /\ mood_var' = "None"
    /\ UNCHANGED <<downloading, download_button, randomize_button, click, wpc,
                   wargs, wclick, wused, wres, afterq, completed,
                   coreVars, resVars, cliVars, safeVars>>

\* The user picks a category of the list on_provider_change installed.
SelectCategory ==
    /\ \E c \in Range(CATEGORIES[current_provider]) : category_var' = c
    /\ UNCHANGED <<provider_var, current_provider, mood_var, downloading,
                   download_button, randomize_button, click, wpc, wargs, wclick,
                   wused, wres, afterq, completed,
                   coreVars, resVars, cliVars, safeVars>>

\* The user picks a mood of the list on_provider_change installed.
SelectMood ==
    /\ \E m \in MoodValues(current_provider) : mood_var' = m
    /\ UNCHANGED <<provider_var, current_provider, category_var, downloading,
                   download_button, randomize_button, click, wpc, wargs, wclick,
                   wused, wres, afterq, completed,
                   coreVars, resVars, cliVars, safeVars>>

\* on_randomize, the command of the Randomize button while it is enabled.
OnRandomize ==
    /\ randomize_button = "normal"
    /\ \E p \in GuiProviders :
         /\ provider_var' = p
         /\ current_provider' = p
         /\ category_var' \in Range(CATEGORIES[p])
         /\ mood_var' \in (IF Cardinality(MoodValues(p)) > 1
                           THEN MoodValues(p) ELSE {"None"})
    /\ UNCHANGED <<downloading, download_button, randomize_button, click, wpc,
                   wargs, wclick, wused, wres, afterq, completed,
                   coreVars, resVars, cliVars, safeVars>>

\* on_download: the warning while a download is in progress, the two error
\* returns, else the buttons are disabled, the flag is set and the worker
\* thread is started with the category and the mood read here.
OnDownload ==
    /\ IF downloading
       THEN /\ click' = "in_progress"
            /\ UNCHANGED <<downloading, download_button, randomize_button, wpc,
                           wargs, wclick, wused>>
       ELSE IF current_provider = ""
       THEN /\ click' = "no_provider"
            /\ UNCHANGED <<downloading, download_button, randomize_button, wpc,
                           wargs, wclick, wused>>
       ELSE IF category_var = ""
       THEN /\ click' = "no_category"
            /\ UNCHANGED <<downloading, download_button, randomize_button, wpc,
                           wargs, wclick, wused>>
       ELSE /\ Unborn # {}
            /\ LET t == CHOOSE u \in Unborn : \A v \in Unborn : u <= v
               IN  wpc' = [wpc EXCEPT ![t] = "started"]
            /\ wargs' = <<category_var, IF mood_var # "None" THEN mood_var ELSE "">>
            /\ wclick' = current_provider
            /\ wused' = ""
            /\ download_button' = "disabled"
            /\ randomize_button' = "disabled"
            /\ downloading' = TRUE
            /\ click' = "started"
    /\ UNCHANGED <<provider_var, current_provider, category_var, mood_var, wres,
                   afterq, completed,
                   coreVars, resVars, cliVars, safeVars>>

\* download_wallpaper up to the call: self.current_provider is read in the
\* worker thread and its download_image is called with the captured arguments.
WorkerCall(t) ==
    /\ wpc[t] = "started"
    /\ wused' = current_provider
    /\ wpc' = [wpc EXCEPT ![t] = "downloading"]
    /\ UNCHANGED <<provider_var, current_provider, category_var, mood_var,
                   downloading, download_button, randomize_button, click, wargs,
                   wclick, wres, afterq, completed,
                   coreVars, resVars, cliVars, safeVars>>

\* download_wallpaper with the callback scheduled at the end of the try block
\* instead of in a finally clause.
WorkerReturn_no_finally(t) ==
    /\ wpc[t] = "downloading"
    /\ \E res \in {"ok", "error"} :
         /\ wres' = [wres EXCEPT ![t] = res]
         /\ afterq' = IF res = "ok" THEN afterq + 1 ELSE afterq
    /\ wpc' = [wpc EXCEPT ![t] = "ended"]
    /\ UNCHANGED <<provider_var, current_provider, category_var, mood_var,
                   downloading, download_button, randomize_button, click, wargs,
                   wclick, wused, completed,
                   coreVars, resVars, cliVars, safeVars>>

\* The rest of download_wallpaper: the download, the save and the wallpaper
\* change succeed or one of them raises; the finally clause schedules
\* on_download_complete on the main loop and the thread ends.
WorkerReturn(t) ==
    /\ wpc[t] = "downloading"
    /\ \E res \in {"ok", "error"} : wres' = [wres EXCEPT ![t] = res]
    /\ afterq' = afterq + 1
    /\ wpc' = [wpc EXCEPT ![t] = "ended"]
    /\ UNCHANGED <<provider_var, current_provider, category_var, mood_var,
                   downloading, download_button, randomize_button, click, wargs,
                   wclick, wused, completed,
                   coreVars, resVars, cliVars, safeVars>>

\* The main loop runs a scheduled on_download_complete.
OnDownloadComplete ==
    /\ afterq > 0
    /\ afterq' = afterq - 1
    /\ download_button' = "normal"
    /\ randomize_button' = "normal"
    /\ downloading' = FALSE
    /\ completed' = completed + 1
    /\ UNCHANGED <<provider_var, current_provider, category_var, mood_var, click,
                   wpc, wargs, wclick, wused, wres,
                   coreVars, resVars, cliVars, safeVars>>

WorkerCalls == \E t \in Threads : WorkerCall(t)
WorkerReturns == \E t \in Threads : WorkerReturn(t)

GuiNext ==
    \/ OnProviderChange
    \/ SelectCategory
    \/ SelectMood
    \/ OnRandomize
    \/ OnDownload
    \/ WorkerCalls
    \/ WorkerReturns
    \/ OnDownloadComplete

SpecGui == GuiInit /\ [][GuiNext]_vars

\* A started thread is scheduled, download_wallpaper returns or raises, and
\* the main loop runs the callbacks it was handed.
SpecGuiLive ==
    /\ GuiInit
    /\ [][GuiNext]_vars
    /\ WF_vars(WorkerCalls)
    /\ WF_vars(WorkerReturns)
    /\ WF_vars(OnDownloadComplete)

\* ------------------------------------------------------------ claims: GUI
\* At most one worker thread exists.
OneWorker == Cardinality(Live) <= 1

\* While the flag is set no step starts a thread, and on_download_complete
\* resets the flag and enables both buttons.
FlagStep ==
    /\ downloading => \A t \in Threads : wpc[t] = "unborn" => wpc'[t] = "unborn"
    /\ completed' > completed
         => /\ downloading' = FALSE
            /\ download_button' = "normal"
            /\ randomize_button' = "normal"

\* C28: at most one download worker thread exists at any time; on_download
\* called while the downloading flag is set starts no thread; and every
\* started download, whether it succeeds or raises, is followed by a run of
\* on_download_complete, which resets the flag and enables both buttons.
C28_OneWorkerAndCompletion ==
    /\ []OneWorker
    /\ [][FlagStep]_vars
    /\ \A t \in Threads : (wpc[t] = "started") ~> (completed >= t)

\* A download that raised and one that succeeded were both completed, and a
\* call of on_download during a download was turned away.
C28_Witness ==
    /\ wres[1] = "error" /\ wres[2] = "ok" /\ completed = 2
    /\ click = "in_progress"
    /\ downloading = FALSE
    /\ download_button = "normal" /\ randomize_button = "normal"

\* C29: the provider whose download_image runs in the worker thread is the
\* provider that was selected when Download was clicked, the one the captured
\* category belongs to.
C29_WorkerUsesClickedProvider ==
    wused # ""
    => /\ wused = wclick
       /\ wargs[1] \in Range(CATEGORIES[wused])

====
